---- MODULE Spec2Model ----
(***************************************************************************)
(* The docking task execution orchestrator, ExecuteDockingTaskUseCase, of  *)
(* use_cases/commands/execute_docking_task.py as a state machine.          *)
(*                                                                         *)
(* Every call of execute() is one execution e \in Execs.  Its request, its *)
(* DockingTaskExecution record, its local variables and its position in    *)
(* the coroutine are the state; the collaborators (ligand preparation,     *)
(* docking engine) answer each call nondeterministically.  A Python        *)
(* Optional is a tuple: <<>> is None and <<x>> is the value x.  A message  *)
(* is the tuple of the pieces the f-string concatenates.                   *)
(*                                                                         *)
(* The docking engine adapter, NeuroSnapAdapter of                         *)
(* adapters/external/neurosnap_adapter.py, is modelled beside it: its      *)
(* retrieve_results coroutine as a state machine over the variable         *)
(* adapter, and its parsing functions (with the DockingResults             *)
(* constructor) as operators applied to drawn inputs in the variable call. *)
(***************************************************************************)
EXTENDS Integers, Sequences, FiniteSets, TLC

VARIABLES
    request,     \* request[e]: the DockingTaskRequest handed to execute()
    execution,   \* execution[e]: the DockingTaskExecution record
    frame,       \* frame[e]: position and local variables of the coroutine
    now,         \* now[e]: datetime.utcnow() as the execution sees it, seconds
    outcome,     \* outcome[e]: how execute() ended: returned, or the raised exception
    obs,         \* obs[e]: history of the collaborator calls (observation only)
    adapter,     \* one call of NeuroSnapAdapter.retrieve_results and the provider it asks
    call         \* one application of a parsing function: its input and its result

vars == <<request, execution, frame, now, outcome, obs, adapter, call>>

\* the state of the orchestrator
orchestratorVars == <<request, execution, frame, now, outcome, obs>>

----------------------------------------------------------------------------
(* Bounds of the model *)

\* longest timeout_minutes a request asks for
MaxTimeoutMinutes == 1

\* longest pose list the engine's retrieve_results answers with
MaxResultPoses == 2

\* longest SDF text, in tokens
MaxSdfTokens == 4

\* longest text of labelled values, in tokens
MaxLabelTokens == 3

\* most output files a job has
MaxFiles == 2

(* Program constants *)

MaxPosesLow == 1
MaxPosesHigh == 20
\* energy_range is counted in tenths of kcal/mol: 0.5 is 5, 10.0 is 100
EnergyRangeLow == 5
EnergyRangeHigh == 100
\* poll_interval, seconds
poll_interval == 10
\* timedelta(minutes = 1), seconds
SecondsPerMinute == 60

Execs == {1, 2}

----------------------------------------------------------------------------
(* Python values *)

None == <<>>
Some(x) == <<x>>
IsNone(o) == Len(o) = 0
Val(o) == o[1]

\* str(x) of an Optional[str] inside an f-string
StrOf(o) == IF IsNone(o) THEN "None" ELSE Val(o)

\* A receptor or ligand argument: None, a dict with the given keys, a str, or a
\* MolecularStructure object.
NoneArg == [kind |-> "NoneType", keys |-> {}, value |-> ""]
DictArg(K) == [kind |-> "dict", keys |-> K, value |-> ""]
StrArg(s) == [kind |-> "str", keys |-> {}, value |-> s]
StructureArg(n) == [kind |-> "MolecularStructure", keys |-> {}, value |-> n]

\* bool(x): None, {} and "" are falsy; a dataclass instance is truthy
Truthy(x) ==
    CASE x.kind = "NoneType" -> FALSE
      [] x.kind = "dict" -> x.keys # {}
      [] x.kind = "str" -> x.value # ""
      [] OTHER -> TRUE

\* binding_site: None, or a dict with the given keys
NoBindingSite == [supplied |-> FALSE, keys |-> {}]
BindingSite(K) == [supplied |-> TRUE, keys |-> K]

required_keys == <<"center_x", "center_y", "center_z", "size_x", "size_y", "size_z">>
RequiredKeySet == {required_keys[i] : i \in 1..Len(required_keys)}

JobStatus == {"PENDING", "RUNNING", "COMPLETED", "FAILED", "CANCELED"}

\* DockingTaskExecutionError and its subclasses: message, execution_id, job_id
DockingTaskExecutionError(type, message, execution_id, job_id) ==
    [type |-> type, msg |-> message, execution_id |-> execution_id, job_id |-> job_id]

\* what a collaborator raises: not one of the orchestrator's error types
CollaboratorError ==
    [type |-> "Exception", msg |-> <<"collaborator failure">>,
     execution_id |-> None, job_id |-> None]

\* uuid4(): a fresh id per execution
uuid4(e) == e

\* the job id the provider assigns to the job of execution e
ProviderJobId(e) == IF e = 1 THEN "job_1" ELSE "job_2"

----------------------------------------------------------------------------
(* DockingPose, DockingResults *)

Affinities == {-8, -7}

DockingPose(rank, affinity) == [rank |-> rank, affinity |-> affinity]

RECURSIVE MinAffinityIndex(_, _)
\* index of the first pose of least affinity among poses[1..n]: min(poses, key=affinity)
MinAffinityIndex(poses, n) ==
    IF n = 1 THEN 1
    ELSE LET i == MinAffinityIndex(poses, n - 1)
         IN IF poses[n].affinity < poses[i].affinity THEN n ELSE i

\* DockingResults(poses=..., best_pose=...) with __post_init__
DockingResults(poses, best_pose) ==
    [poses |-> poses,
     best_pose |-> IF Len(poses) > 0 /\ IsNone(best_pose)
                   THEN Some(poses[MinAffinityIndex(poses, Len(poses))])
                   ELSE best_pose]

\* the pose lists an engine answers with: ranks 1..n in order
PoseLists ==
    UNION {{[i \in 1..n |-> DockingPose(i, a[i])] : a \in [1..n -> Affinities]}
           : n \in 0..MaxResultPoses}

\* what retrieve_results may return: None, or results with best_pose derived
RetrieveReturns == {None} \cup {Some(DockingResults(p, None)) : p \in PoseLists}

----------------------------------------------------------------------------
(* Requests *)

NoCall == [called |-> FALSE, receptor |-> NoneArg, ligand |-> NoneArg,
           binding_site |-> NoBindingSite, max_poses |-> 9, energy_range |-> 30,
           timeout_minutes |-> 30, retry_attempts |-> 3]

ReceptorChoices ==
    {NoneArg, DictArg({}), DictArg({"name"}), DictArg({"data", "format"}),
     StructureArg("EGFR"), StrArg("1abc.pdb")}

LigandChoices ==
    {NoneArg, StrArg(""), DictArg({"data"}), DictArg({"data", "format", "name"}),
     StructureArg("custom_ligand"), StrArg("osimertinib"), StrArg("aspirin")}

BindingSiteChoices ==
    {NoBindingSite} \cup
    {BindingSite(K) : K \in {S \in SUBSET RequiredKeySet : Cardinality(S) \in {0, 1, 5, 6}}}

Requests ==
    [called : {TRUE},
     receptor : ReceptorChoices,
     ligand : LigandChoices,
     binding_site : BindingSiteChoices,
     max_poses : {MaxPosesLow - 1, MaxPosesLow, MaxPosesHigh, MaxPosesHigh + 1},
     energy_range : {EnergyRangeLow - 1, EnergyRangeLow, EnergyRangeHigh, EnergyRangeHigh + 1},
     timeout_minutes : (-1)..MaxTimeoutMinutes,
     retry_attempts : {0, 3}]

----------------------------------------------------------------------------
(* State after construction of the use case: no execute() call has begun *)

\* retrieve_results of the adapter is not called
NoAdapterCall == [pc |-> "unused"]

\* no parsing function is applied
NoFunctionCall == [pc |-> "unused"]

NoExecution ==
    [execution_id |-> None, job_id |-> None, status |-> "ABSENT",
     started_at |-> None, completed_at |-> None, results |-> None,
     error_message |-> None, retry_count |-> 0, estimated_completion |-> None]

InitFrame ==
    [pc |-> "idle", ligand_structure |-> None, receptor_structure |-> None,
     timeout_at |-> 0, caught |-> None]

InitOutcome == [returned |-> FALSE, raised |-> None]

InitObs ==
    [prepare_calls |-> 0, submit_calls |-> 0, status_calls |-> 0,
     retrieve_calls |-> 0, sleeps |-> 0,
     submitted |-> None,        \* the job id submit_docking_job returned
     failed_seen |-> FALSE,     \* some poll returned FAILED or CANCELED
     after_failed |-> FALSE,    \* a status query or a sleep followed that poll
     completed_seen |-> FALSE,  \* some poll returned COMPLETED
     retrieved |-> "not_called", \* the answer of retrieve_results
     prepare_arg |-> None,      \* the argument of prepare_ligand_from_drug_name
     prepare_result |-> None,   \* the structure prepare_ligand_from_drug_name returned
     submit_ligand |-> None,    \* the ligand handed to submit_docking_job
     submit_receptor |-> None,  \* the receptor handed to submit_docking_job
     status_raised |-> FALSE,   \* some get_job_status call raised
     queried |-> {}             \* the job ids passed to get_job_status, retrieve_results
    ]

\* one call of execute(), with any request, is about to be made (execution 1)
Init ==
    /\ request \in {[e \in Execs |-> IF e = 1 THEN r ELSE NoCall] : r \in Requests}
    /\ execution = [e \in Execs |-> NoExecution]
    /\ frame = [e \in Execs |-> InitFrame]
    /\ now = [e \in Execs |-> 0]
    /\ outcome = [e \in Execs |-> InitOutcome]
    /\ obs = [e \in Execs |-> InitObs]
    /\ adapter = NoAdapterCall
    /\ call = NoFunctionCall

----------------------------------------------------------------------------
(* Steps of execute() *)

Pc(e) == frame[e].pc

Goto(e, pc) == frame' = [frame EXCEPT ![e].pc = pc]

\* execute_except with the message left off the record
execute_except_NoMessage(rec, exc, t) ==
    [rec EXCEPT !.status = "FAILED", !.completed_at = Some(t)]

\* the except clause of execute(): mark the record failed, stamp it, keep str(e)
execute_except(rec, exc, t) ==
    [rec EXCEPT !.status = "FAILED",
                !.completed_at = Some(t),
                !.error_message = Some(exc.msg)]

\* an exception exc leaves the try block of execute(), the record being rec:
\* the except clause runs and exc is re-raised to the caller
Raise(e, rec, exc) ==
    /\ execution' = [execution EXCEPT ![e] = execute_except(rec, exc, now[e])]
    /\ outcome' = [outcome EXCEPT ![e] = [returned |-> FALSE, raised |-> Some(exc)]]

\* execute(): the record is created and the try block is entered
execute(e) ==
    /\ Pc(e) = "idle"
    /\ request[e].called
    /\ execution' = [execution EXCEPT ![e] =
            [NoExecution EXCEPT
                !.execution_id = Some(uuid4(e)),
                !.status = "PENDING",
                !.started_at = Some(now[e]),
                !.estimated_completion =
                    Some(now[e] + SecondsPerMinute * request[e].timeout_minutes)]]
    /\ Goto(e, "_validate_parameters")
    /\ UNCHANGED <<adapter, call, request, now, outcome, obs>>

\* the keys of required_keys the binding site lacks, in the order of required_keys
missing_keys(binding_site) ==
    SelectSeq(required_keys, LAMBDA key : key \notin binding_site.keys)

\* ValidationFailure with the energy_range check left out
ValidationFailure_NoEnergyCheck(req, execution_id) ==
    IF ~Truthy(req.receptor)
    THEN Some(DockingTaskExecutionError("DockingParameterValidationError",
                <<"Receptor is required">>, execution_id, None))
    ELSE IF ~Truthy(req.ligand)
    THEN Some(DockingTaskExecutionError("DockingParameterValidationError",
                <<"Ligand is required">>, execution_id, None))
    ELSE IF /\ req.binding_site.supplied
            /\ req.binding_site.keys # {}
            /\ Len(missing_keys(req.binding_site)) > 0
    THEN Some(DockingTaskExecutionError("DockingParameterValidationError",
                <<"Binding site missing required keys: ">> \o missing_keys(req.binding_site),
                execution_id, None))
    ELSE IF req.max_poses < MaxPosesLow \/ req.max_poses > MaxPosesHigh
    THEN Some(DockingTaskExecutionError("DockingParameterValidationError",
                <<"max_poses must be between 1 and 20">>, execution_id, None))
    ELSE None

\* _validate_parameters: the exception it raises, or None
ValidationFailure(req, execution_id) ==
    IF ~Truthy(req.receptor)
    THEN Some(DockingTaskExecutionError("DockingParameterValidationError",
                <<"Receptor is required">>, execution_id, None))
    ELSE IF ~Truthy(req.ligand)
    THEN Some(DockingTaskExecutionError("DockingParameterValidationError",
                <<"Ligand is required">>, execution_id, None))
    ELSE IF /\ req.binding_site.supplied
            /\ req.binding_site.keys # {}
            /\ Len(missing_keys(req.binding_site)) > 0
    THEN Some(DockingTaskExecutionError("DockingParameterValidationError",
                <<"Binding site missing required keys: ">> \o missing_keys(req.binding_site),
                execution_id, None))
    ELSE IF req.max_poses < MaxPosesLow \/ req.max_poses > MaxPosesHigh
    THEN Some(DockingTaskExecutionError("DockingParameterValidationError",
                <<"max_poses must be between 1 and 20">>, execution_id, None))
    ELSE IF req.energy_range < EnergyRangeLow \/ req.energy_range > EnergyRangeHigh
    THEN Some(DockingTaskExecutionError("DockingParameterValidationError",
                <<"energy_range must be between 0.5 and 10.0">>, execution_id, None))
    ELSE None

_validate_parameters(e) ==
    /\ Pc(e) = "_validate_parameters"
    /\ LET failure == ValidationFailure(request[e], execution[e].execution_id)
       IN IF IsNone(failure)
          THEN /\ Goto(e, "_prepare_ligand")
               /\ UNCHANGED <<execution, outcome>>
          ELSE /\ Raise(e, execution[e], Val(failure))
               /\ Goto(e, "done")
    /\ UNCHANGED <<adapter, call, request, now, obs>>

\* MolecularStructure(name, format, data)
MolecularStructure(name, format, data) == [name |-> name, format |-> format, data |-> data]

\* the MolecularStructure object a request carries
GivenStructure(arg) == MolecularStructure(arg.value, "given_format", "given_data")

\* MolecularStructure(data=d["data"], format=d["format"], name=d.get("name", default))
StructureFromDict(arg, default) ==
    MolecularStructure(IF "name" \in arg.keys THEN "dict_name" ELSE default,
                       "dict_format", "dict_data")

\* what prepare_ligand_from_drug_name returns for a drug name
PreparedLigand(drug_name) == MolecularStructure(drug_name, "sdf", "prepared_data")

\* LigandPreparationError letting the adapter's exception through
LigandPreparationError_Unwrapped(exc, execution_id) == exc

\* the except clause of _prepare_ligand
LigandPreparationError(exc, execution_id) ==
    DockingTaskExecutionError("LigandPreparationError",
        <<"Failed to prepare ligand: ">> \o exc.msg, execution_id, None)

\* _prepare_ligand, a ligand that needs no collaborator: the structure (answer
\* "return") or the exception raised inside the try block (answer "raise")
LigandWithoutLookup(ligand, execution_id) ==
    IF ligand.kind = "MolecularStructure"
    THEN [raises |-> FALSE, value |-> Some(GivenStructure(ligand)), exc |-> CollaboratorError]
    ELSE IF ligand.kind = "dict" /\ {"data", "format"} \subseteq ligand.keys
    THEN [raises |-> FALSE, value |-> Some(StructureFromDict(ligand, "ligand")),
          exc |-> CollaboratorError]
    ELSE [raises |-> TRUE, value |-> None,
          exc |-> DockingTaskExecutionError("LigandPreparationError",
                    <<"Unsupported ligand type: ", ligand.kind>>, execution_id, None)]

\* DrugNameArgument passing the name a dict ligand would default to
DrugNameArgument_DefaultName(ligand) == "ligand"

\* the argument of prepare_ligand_from_drug_name: request.ligand
DrugNameArgument(ligand) == ligand.value

_prepare_ligand(e) ==
    /\ Pc(e) = "_prepare_ligand"
    /\ LET ligand == request[e].ligand
           id == execution[e].execution_id
       IN IF ligand.kind = "str"
          THEN \* await self.ligand_prep_adapter.prepare_ligand_from_drug_name(...)
               \E raises \in BOOLEAN :
                    IF raises
                    THEN /\ Raise(e, execution[e], LigandPreparationError(CollaboratorError, id))
                         /\ Goto(e, "done")
                         /\ obs' = [obs EXCEPT
                                ![e].prepare_calls = @ + 1,
                                ![e].prepare_arg = Some(DrugNameArgument(ligand))]
                    ELSE /\ frame' = [frame EXCEPT
                                ![e].ligand_structure =
                                    Some(PreparedLigand(DrugNameArgument(ligand))),
                                ![e].pc = "_prepare_receptor"]
                         /\ obs' = [obs EXCEPT
                                ![e].prepare_calls = @ + 1,
                                ![e].prepare_arg = Some(DrugNameArgument(ligand)),
                                ![e].prepare_result =
                                    Some(PreparedLigand(DrugNameArgument(ligand)))]
                         /\ UNCHANGED <<execution, outcome>>
          ELSE LET r == LigandWithoutLookup(ligand, id)
               IN /\ UNCHANGED obs
                  /\ IF r.raises
                     THEN /\ Raise(e, execution[e], LigandPreparationError(r.exc, id))
                          /\ Goto(e, "done")
                     ELSE /\ frame' = [frame EXCEPT ![e].ligand_structure = r.value,
                                                    ![e].pc = "_prepare_receptor"]
                          /\ UNCHANGED <<execution, outcome>>
    /\ UNCHANGED <<adapter, call, request, now>>

\* the except clause of _prepare_receptor
ReceptorPreparationError(exc, execution_id) ==
    DockingTaskExecutionError("DockingParameterValidationError",
        <<"Failed to prepare receptor: ">> \o exc.msg, execution_id, None)

\* the try block of _prepare_receptor
ReceptorStructure(receptor, execution_id) ==
    IF receptor.kind = "MolecularStructure"
    THEN [raises |-> FALSE, value |-> Some(GivenStructure(receptor)), exc |-> CollaboratorError]
    ELSE IF receptor.kind = "dict" /\ {"data", "format"} \subseteq receptor.keys
    THEN [raises |-> FALSE, value |-> Some(StructureFromDict(receptor, "receptor")),
          exc |-> CollaboratorError]
    ELSE [raises |-> TRUE, value |-> None,
          exc |-> DockingTaskExecutionError("DockingParameterValidationError",
                    <<"Unsupported receptor type: ", receptor.kind>>, execution_id, None)]

_prepare_receptor(e) ==
    /\ Pc(e) = "_prepare_receptor"
    /\ LET id == execution[e].execution_id
           r == ReceptorStructure(request[e].receptor, id)
       IN IF r.raises
          THEN /\ Raise(e, execution[e], ReceptorPreparationError(r.exc, id))
               /\ Goto(e, "done")
          ELSE /\ frame' = [frame EXCEPT ![e].receptor_structure = r.value,
                                         ![e].pc = "_submit_docking_job"]
               /\ UNCHANGED <<execution, outcome>>
    /\ UNCHANGED <<adapter, call, request, now, obs>>

\* the job ids submit_docking_job may answer execution e with: the provider's id
\* for the job, or an empty string
SubmitReturns(e) == {ProviderJobId(e), ""}

\* Submitted with the status left as it was
Submitted_KeepsPending(rec, job_id) == [rec EXCEPT !.job_id = Some(job_id)]

\* _submit_docking_job: the record after the adapter returned job_id
Submitted(rec, job_id) == [rec EXCEPT !.job_id = Some(job_id), !.status = "RUNNING"]

\* SubmitError letting the adapter's exception through
SubmitError_Unwrapped(exc, execution_id) == exc

\* the except clause of _submit_docking_job
SubmitError(exc, execution_id) ==
    DockingTaskExecutionError("DockingSubmissionError",
        <<"Failed to submit docking job: ">> \o exc.msg, execution_id, None)

\* _submit_docking_job submitting again, up to retry_attempts times, when the
\* adapter raises
_submit_docking_job_Retrying(e) ==
    /\ Pc(e) = "_submit_docking_job"
    /\ \E raises \in BOOLEAN, job_id \in SubmitReturns(e) :
         IF raises /\ execution[e].retry_count + 1 < request[e].retry_attempts
         THEN /\ job_id = ProviderJobId(e)
              /\ execution' = [execution EXCEPT ![e].retry_count = @ + 1]
              /\ obs' = [obs EXCEPT ![e].submit_calls = @ + 1,
                                    ![e].submit_ligand = frame[e].ligand_structure,
                                    ![e].submit_receptor = frame[e].receptor_structure]
              /\ UNCHANGED <<frame, outcome>>
         ELSE IF raises
         THEN /\ job_id = ProviderJobId(e)
              /\ Raise(e, execution[e], SubmitError(CollaboratorError, execution[e].execution_id))
              /\ Goto(e, "done")
              /\ obs' = [obs EXCEPT ![e].submit_calls = @ + 1,
                                    ![e].submit_ligand = frame[e].ligand_structure,
                                    ![e].submit_receptor = frame[e].receptor_structure]
         ELSE /\ execution' = [execution EXCEPT ![e] = Submitted(@, job_id)]
              /\ Goto(e, "_monitor_execution")
              /\ obs' = [obs EXCEPT ![e].submit_calls = @ + 1,
                                    ![e].submit_ligand = frame[e].ligand_structure,
                                    ![e].submit_receptor = frame[e].receptor_structure,
                                    ![e].submitted = Some(job_id)]
              /\ UNCHANGED outcome
    /\ UNCHANGED <<adapter, call, request, now>>

_submit_docking_job(e) ==
    /\ Pc(e) = "_submit_docking_job"
    /\ \E raises \in BOOLEAN, job_id \in SubmitReturns(e) :
         IF raises
         THEN /\ job_id = ProviderJobId(e)
              /\ Raise(e, execution[e], SubmitError(CollaboratorError, execution[e].execution_id))
              /\ Goto(e, "done")
              /\ obs' = [obs EXCEPT ![e].submit_calls = @ + 1,
                                    ![e].submit_ligand = frame[e].ligand_structure,
                                    ![e].submit_receptor = frame[e].receptor_structure]
         ELSE /\ execution' = [execution EXCEPT ![e] = Submitted(@, job_id)]
              /\ Goto(e, "_monitor_execution")
              /\ obs' = [obs EXCEPT ![e].submit_calls = @ + 1,
                                    ![e].submit_ligand = frame[e].ligand_structure,
                                    ![e].submit_receptor = frame[e].receptor_structure,
                                    ![e].submitted = Some(job_id)]
              /\ UNCHANGED outcome
    /\ UNCHANGED <<adapter, call, request, now>>


\* JobIdArgument naming the job of the first execution
JobIdArgument_FirstJob(rec) == ProviderJobId(1)

\* the job id passed to get_job_status and retrieve_results: execution.job_id
JobIdArgument(rec) == Val(rec.job_id)

\* bool(execution.job_id): None and "" are falsy
HasJobId(rec) == ~IsNone(rec.job_id) /\ Val(rec.job_id) # ""


\* _monitor_execution giving every execution at least one minute
_monitor_execution_ClampedTimeout(e) ==
    /\ Pc(e) = "_monitor_execution"
    /\ frame' = [frame EXCEPT
            ![e].timeout_at = now[e] + SecondsPerMinute *
                (IF request[e].timeout_minutes < 1 THEN 1 ELSE request[e].timeout_minutes),
            ![e].pc = "while"]
    /\ UNCHANGED <<adapter, call, request, execution, now, outcome, obs>>

\* _monitor_execution up to the loop: the deadline is computed
_monitor_execution(e) ==
    /\ Pc(e) = "_monitor_execution"
    /\ frame' = [frame EXCEPT
            ![e].timeout_at = now[e] + SecondsPerMinute * request[e].timeout_minutes,
            ![e].pc = "while"]
    /\ UNCHANGED <<adapter, call, request, execution, now, outcome, obs>>

\* LoopCondition taking one more iteration at the deadline
LoopCondition_Inclusive(t, timeout_at) == t <= timeout_at

\* the loop condition: datetime.utcnow() < timeout_at
LoopCondition(t, timeout_at) == t < timeout_at

\* what get_job_status may answer: a JobStatus, or it raises
StatusAnswers == JobStatus \cup {"raise"}

\* the try block of the loop body, the status query answered: it returns from
\* _monitor_execution ("return"), raises exc ("raise"), or reaches the sleep that
\* ends the try block ("sleep")
PollTry(answer, rec) ==
    CASE answer = "raise" -> [kind |-> "raise", exc |-> CollaboratorError]
      [] answer = "COMPLETED" -> [kind |-> "return", exc |-> CollaboratorError]
      [] answer = "FAILED" ->
            [kind |-> "raise",
             exc |-> DockingTaskExecutionError("DockingSubmissionError",
                        <<"Docking job ", StrOf(rec.job_id), " failed">>,
                        rec.execution_id, rec.job_id)]
      [] answer = "CANCELED" ->
            [kind |-> "raise",
             exc |-> DockingTaskExecutionError("DockingSubmissionError",
                        <<"Docking job ", StrOf(rec.job_id), " was canceled">>,
                        rec.execution_id, rec.job_id)]
      [] OTHER -> [kind |-> "sleep", exc |-> CollaboratorError]

\* PollBody returning from the loop on any answer that is not a failure
PollBody_ReturnOnRunning(answer, rec) ==
    LET t == PollTry(answer, rec)
    IN CASE t.kind = "raise" -> [pc |-> "sleep", caught |-> Some(t.exc)]
         [] OTHER -> [pc |-> "_retrieve_results", caught |-> None]

\* PollBody without the except clause: an exception ends the coroutine
PollBody_RaiseEscapes(answer, rec) ==
    LET t == PollTry(answer, rec)
    IN CASE t.kind = "return" -> [pc |-> "_retrieve_results", caught |-> None]
         [] t.kind = "raise" -> [pc |-> "done", caught |-> Some(t.exc)]
         [] OTHER -> [pc |-> "sleep", caught |-> None]


\* PollBody querying again at once after an exception, without the sleep
PollBody_RetryWithoutSleep(answer, rec) ==
    LET t == PollTry(answer, rec)
    IN CASE t.kind = "return" -> [pc |-> "_retrieve_results", caught |-> None]
         [] t.kind = "raise" -> [pc |-> "while", caught |-> Some(t.exc)]
         [] OTHER -> [pc |-> "sleep", caught |-> None]

\* the loop body with its except clause (except Exception: warn, sleep): where
\* the coroutine goes next, and the exception the clause swallowed
PollBody(answer, rec) ==
    LET t == PollTry(answer, rec)
    IN CASE t.kind = "return" -> [pc |-> "_retrieve_results", caught |-> None]
         [] t.kind = "raise" -> [pc |-> "sleep", caught |-> Some(t.exc)]
         [] OTHER -> [pc |-> "sleep", caught |-> None]

\* raised inside the try block when the record has no job id
NoJobIdForMonitoring(rec) ==
    DockingTaskExecutionError("DockingSubmissionError",
        <<"No job ID available for status monitoring">>, rec.execution_id, None)

\* one iteration of the while loop, up to its sleep
poll_job_status(e) ==
    /\ Pc(e) = "while"
    /\ LoopCondition(now[e], frame[e].timeout_at)
    /\ LET rec == execution[e]
       IN IF ~HasJobId(rec)
          THEN /\ frame' = [frame EXCEPT ![e].pc = "sleep",
                                         ![e].caught = Some(NoJobIdForMonitoring(rec))]
               /\ UNCHANGED obs
          ELSE \E answer \in StatusAnswers :
                 LET b == PollBody(answer, rec)
                 IN /\ frame' = [frame EXCEPT ![e].pc = b.pc, ![e].caught = b.caught]
                    /\ obs' = [obs EXCEPT
                          ![e].status_calls = @ + 1,
                          ![e].after_failed = @ \/ obs[e].failed_seen,
                          ![e].failed_seen = @ \/ answer \in {"FAILED", "CANCELED"},
                          ![e].completed_seen = @ \/ answer = "COMPLETED",
                          ![e].status_raised = @ \/ answer = "raise",
                          ![e].queried = @ \cup {JobIdArgument(rec)}]
    /\ UNCHANGED <<adapter, call, request, execution, now, outcome>>

\* await asyncio.sleep(poll_interval), at the end of the try block or in the
\* except clause; the loop condition is tested next
poll_sleep(e) ==
    /\ Pc(e) = "sleep"
    /\ now' = [now EXCEPT ![e] = @ + poll_interval]
    /\ frame' = [frame EXCEPT ![e].pc = "while", ![e].caught = None]
    /\ obs' = [obs EXCEPT ![e].sleeps = @ + 1,
                          ![e].after_failed = @ \/ obs[e].failed_seen]
    /\ UNCHANGED <<adapter, call, request, execution, outcome>>

\* TimeoutError built like the errors that pass no job id
TimeoutError_NoJobId(rec, timeout_minutes) ==
    DockingTaskExecutionError("DockingExecutionTimeoutError",
        <<"Docking job ", StrOf(rec.job_id), " timed out after ",
          ToString(timeout_minutes), " minutes">>,
        rec.execution_id, None)

\* raised after the loop
TimeoutError(rec, timeout_minutes) ==
    DockingTaskExecutionError("DockingExecutionTimeoutError",
        <<"Docking job ", StrOf(rec.job_id), " timed out after ",
          ToString(timeout_minutes), " minutes">>,
        rec.execution_id, rec.job_id)


\* monitor_timeout that goes on waiting for the job at the deadline, without
\* polling, instead of raising
monitor_timeout_KeepsWaiting(e) ==
    /\ Pc(e) = "while"
    /\ ~LoopCondition(now[e], frame[e].timeout_at)
    /\ Goto(e, "waiting")
    /\ UNCHANGED <<adapter, call, request, execution, now, outcome, obs>>

\* the loop condition fails: the deadline is reached
monitor_timeout(e) ==
    /\ Pc(e) = "while"
    /\ ~LoopCondition(now[e], frame[e].timeout_at)
    /\ Raise(e, execution[e], TimeoutError(execution[e], request[e].timeout_minutes))
    /\ Goto(e, "done")
    /\ UNCHANGED <<adapter, call, request, now, obs>>

\* RetrieveError with the exception passed on as it is
RetrieveError_Unwrapped(exc, rec) == exc

\* RetrieveError built like the errors that pass no job id
RetrieveError_NoJobId(exc, rec) ==
    DockingTaskExecutionError("DockingSubmissionError",
        <<"Failed to retrieve docking results: ">> \o exc.msg,
        rec.execution_id, None)

\* the except clause of _retrieve_results
RetrieveError(exc, rec) ==
    DockingTaskExecutionError("DockingSubmissionError",
        <<"Failed to retrieve docking results: ">> \o exc.msg,
        rec.execution_id, rec.job_id)

\* raised inside the try block of _retrieve_results
NoJobIdForRetrieval(rec) ==
    DockingTaskExecutionError("DockingSubmissionError",
        <<"No job ID available for result retrieval">>, rec.execution_id, None)

NoPosesError(rec) ==
    DockingTaskExecutionError("DockingSubmissionError",
        <<"No valid docking poses returned for job ", StrOf(rec.job_id)>>,
        rec.execution_id, rec.job_id)

\* ResultsInvalid testing the results object alone
ResultsInvalid_OnlyNone(results) == IsNone(results)

\* not execution.results or not execution.results.poses
ResultsInvalid(results) == IsNone(results) \/ Len(Val(results).poses) = 0

\* WithResults marking the record completed as it stores the results
WithResults_MarksCompleted(rec, results) ==
    [rec EXCEPT !.results = results, !.status = "COMPLETED"]

\* execution.results = await ...retrieve_results(...)
WithResults(rec, results) == [rec EXCEPT !.results = results]

\* how the observation names an answer of retrieve_results
RetrievedKind(results) ==
    IF IsNone(results) THEN "none"
    ELSE IF Len(Val(results).poses) = 0 THEN "empty" ELSE "poses"

_retrieve_results(e) ==
    /\ Pc(e) = "_retrieve_results"
    /\ LET rec == execution[e]
       IN IF ~HasJobId(rec)
          THEN /\ Raise(e, rec, RetrieveError(NoJobIdForRetrieval(rec), rec))
               /\ Goto(e, "done")
               /\ UNCHANGED obs
          ELSE \E raises \in BOOLEAN, results \in RetrieveReturns :
                 IF raises
                 THEN /\ IsNone(results)
                      /\ Raise(e, rec, RetrieveError(CollaboratorError, rec))
                      /\ Goto(e, "done")
                      /\ obs' = [obs EXCEPT ![e].retrieve_calls = @ + 1,
                                            ![e].queried = @ \cup {JobIdArgument(rec)},
                                            ![e].retrieved = "raised"]
                 ELSE /\ obs' = [obs EXCEPT ![e].retrieve_calls = @ + 1,
                                            ![e].queried = @ \cup {JobIdArgument(rec)},
                                            ![e].retrieved = RetrievedKind(results)]
                      /\ LET rec2 == WithResults(rec, results)
                         IN IF ResultsInvalid(rec2.results)
                            THEN /\ Raise(e, rec2, RetrieveError(NoPosesError(rec2), rec2))
                                 /\ Goto(e, "done")
                            ELSE /\ execution' = [execution EXCEPT ![e] = rec2]
                                 /\ Goto(e, "return")
                                 /\ UNCHANGED outcome
    /\ UNCHANGED <<adapter, call, request, now>>

\* Completed without the completion stamp
Completed_NoStamp(rec, t) == [rec EXCEPT !.status = "COMPLETED"]

\* the end of the try block of execute()
Completed(rec, t) == [rec EXCEPT !.status = "COMPLETED", !.completed_at = Some(t)]

\* execute() returns the record
execute_return(e) ==
    /\ Pc(e) = "return"
    /\ execution' = [execution EXCEPT ![e] = Completed(@, now[e])]
    /\ outcome' = [outcome EXCEPT ![e].returned = TRUE]
    /\ Goto(e, "done")
    /\ UNCHANGED <<adapter, call, request, now, obs>>

Next ==
    \E e \in Execs :
        \/ execute(e)
        \/ _validate_parameters(e)
        \/ _prepare_ligand(e)
        \/ _prepare_receptor(e)
        \/ _submit_docking_job(e)
        \/ _monitor_execution(e)
        \/ poll_job_status(e)
        \/ poll_sleep(e)
        \/ monitor_timeout(e)
        \/ _retrieve_results(e)
        \/ execute_return(e)

Spec == Init /\ [][Next]_vars



\* the requests whose executions are followed to their end: every receptor and
\* ligand, with and without a defect the validation finds, every timeout
FairRequests ==
    [called : {TRUE},
     receptor : ReceptorChoices,
     ligand : LigandChoices,
     binding_site : {NoBindingSite},
     max_poses : {MaxPosesLow},
     energy_range : {EnergyRangeLow - 1, EnergyRangeLow},
     timeout_minutes : (-1)..MaxTimeoutMinutes,
     retry_attempts : {0, 3}]

InitFair ==
    /\ request \in {[e \in Execs |-> IF e = 1 THEN r ELSE NoCall] : r \in FairRequests}
    /\ execution = [e \in Execs |-> NoExecution]
    /\ frame = [e \in Execs |-> InitFrame]
    /\ now = [e \in Execs |-> 0]
    /\ outcome = [e \in Execs |-> InitOutcome]
    /\ obs = [e \in Execs |-> InitObs]
    /\ adapter = NoAdapterCall
    /\ call = NoFunctionCall

\* the executions with the scheduling of the event loop: a coroutine whose
\* awaited call has returned or raised, or whose sleep is over, is resumed
FairSpec == InitFair /\ [][Next]_vars /\ WF_vars(Next)

\* the requests of two concurrent executions: valid requests, the ligand of
\* the first a drug name and the ligand of the second a structure
ConcurrentRequest(e) ==
    [called |-> TRUE,
     receptor |-> StructureArg("EGFR"),
     ligand |-> IF e = 1 THEN StrArg("osimertinib") ELSE StructureArg("custom_ligand"),
     binding_site |-> NoBindingSite,
     max_poses |-> MaxPosesLow,
     energy_range |-> EnergyRangeLow,
     timeout_minutes |-> MaxTimeoutMinutes,
     retry_attempts |-> 3]

\* execute() is called twice on one use case; the two coroutines interleave at
\* their awaits
InitConcurrent ==
    /\ request = [e \in Execs |-> ConcurrentRequest(e)]
    /\ execution = [e \in Execs |-> NoExecution]
    /\ frame = [e \in Execs |-> InitFrame]
    /\ now = [e \in Execs |-> 0]
    /\ outcome = [e \in Execs |-> InitOutcome]
    /\ obs = [e \in Execs |-> InitObs]
    /\ adapter = NoAdapterCall
    /\ call = NoFunctionCall

SpecConcurrent == InitConcurrent /\ [][Next]_vars

----------------------------------------------------------------------------
(* Properties *)

Done(e) == Pc(e) = "done"

Raised(e) == ~IsNone(outcome[e].raised)

RaisedType(e, type) == Raised(e) /\ Val(outcome[e].raised).type = type

\* no collaborator was called and no sleep was taken
NoCollaboratorCalls(e) ==
    /\ obs[e].prepare_calls = 0
    /\ obs[e].submit_calls = 0
    /\ obs[e].status_calls = 0
    /\ obs[e].retrieve_calls = 0

\* a receptor or ligand that is missing: None, or empty
Missing(arg) == arg \in {NoneArg, DictArg({}), StrArg("")}

\* C1 (as claimed): once a poll has returned FAILED or CANCELED, no status query
\* and no sleep follows it, and execute ends with DockingSubmissionError, not with
\* a timeout error.
C1_FailedStatusEndsPolling ==
    \A e \in Execs :
        obs[e].failed_seen =>
            /\ ~obs[e].after_failed
            /\ Done(e) => RaisedType(e, "DockingSubmissionError")

\* C2: a submitted execution that ends without any poll having returned COMPLETED,
\* FAILED or CANCELED ends with DockingExecutionTimeoutError, which carries the
\* execution id and the job id submission returned.
C2_TimeoutWithoutTerminalStatus ==
    \A e \in Execs :
        (/\ Done(e)
         /\ ~IsNone(obs[e].submitted)
         /\ ~obs[e].completed_seen
         /\ ~obs[e].failed_seen)
        => /\ RaisedType(e, "DockingExecutionTimeoutError")
           /\ Val(outcome[e].raised).execution_id = Some(uuid4(e))
           /\ Val(outcome[e].raised).job_id = obs[e].submitted

C2_Witness ==
    \E e \in Execs :
        /\ Done(e)
        /\ ~IsNone(obs[e].submitted)
        /\ ~obs[e].completed_seen
        /\ ~obs[e].failed_seen
        /\ obs[e].status_calls > 0
        /\ RaisedType(e, "DockingExecutionTimeoutError")

\* the request fails one of the checks C3 names
C3_Case(req) ==
    \/ Missing(req.receptor)
    \/ Missing(req.ligand)
    \/ req.max_poses \notin 1..20
    \/ req.energy_range \notin 5..100

\* C3: a request with the receptor or the ligand missing, or max_poses outside
\* [1,20], or energy_range outside [0.5,10.0] never causes a collaborator call,
\* never returns, and ends with DockingParameterValidationError.
C3_InvalidRequestRejectedWithoutCalls ==
    \A e \in Execs :
        (request[e].called /\ C3_Case(request[e]))
        => /\ NoCollaboratorCalls(e)
           /\ obs[e].sleeps = 0
           /\ ~outcome[e].returned
           /\ Done(e) => RaisedType(e, "DockingParameterValidationError")

C3_Witness ==
    \E e \in Execs :
        /\ Done(e)
        /\ ~Missing(request[e].receptor)
        /\ ~Missing(request[e].ligand)
        /\ request[e].max_poses \in 1..20
        /\ request[e].energy_range = 101
        /\ RaisedType(e, "DockingParameterValidationError")

\* the request passes every check of validation other than the binding site's, and
\* its receptor and ligand have shapes the preparation steps accept
ValidApartFromBindingSite(req) ==
    /\ req.receptor.kind = "MolecularStructure"
    /\ req.ligand.kind = "MolecularStructure"
    /\ req.max_poses \in 1..20
    /\ req.energy_range \in 5..100

\* the binding-site map is supplied and lacks one of the six keys
IncompleteBindingSite(req) ==
    /\ req.binding_site.supplied
    /\ ~(RequiredKeySet \subseteq req.binding_site.keys)

\* C4 (as claimed, read on requests with nothing else to reject): a request that
\* supplies a binding-site map lacking one of the six keys, the empty map
\* included, causes no collaborator call, never returns, and ends with
\* DockingParameterValidationError.
C4_IncompleteBindingSiteRejected ==
    \A e \in Execs :
        (/\ request[e].called
         /\ ValidApartFromBindingSite(request[e])
         /\ IncompleteBindingSite(request[e]))
        => /\ NoCollaboratorCalls(e)
           /\ ~outcome[e].returned
           /\ Done(e) => RaisedType(e, "DockingParameterValidationError")

\* C5 (as claimed): whenever execute ends with DockingParameterValidationError, no
\* collaborator was called during the execution.
C5_ValidationErrorMeansNoCalls ==
    \A e \in Execs :
        RaisedType(e, "DockingParameterValidationError") => NoCollaboratorCalls(e)

\* retrieve_results answered without a pose: no results, or an empty pose list
NoPoseRetrieved(e) == obs[e].completed_seen /\ obs[e].retrieved \in {"none", "empty"}

\* execute returned a record whose results carry at least one pose
ReturnedWithPoses(e) ==
    outcome[e].returned =>
        /\ ~IsNone(execution[e].results)
        /\ Len(Val(execution[e].results).poses) >= 1

C7_RetrievalFailureIsWrapped ==
    \A e \in Execs :
        (/\ Done(e)
         /\ obs[e].completed_seen
         /\ obs[e].retrieved \in {"raised", "empty"})
        => /\ RaisedType(e, "DockingSubmissionError")
           /\ Head(Val(outcome[e].raised).msg) = "Failed to retrieve docking results: "
           /\ Val(outcome[e].raised).execution_id = Some(uuid4(e))
           /\ Val(outcome[e].raised).job_id = obs[e].submitted

C7_Witness ==
    \E e \in Execs :
        /\ Done(e)
        /\ obs[e].completed_seen
        /\ obs[e].retrieved = "raised"
        /\ RaisedType(e, "DockingSubmissionError")
        /\ Val(outcome[e].raised).msg =
              <<"Failed to retrieve docking results: ">> \o CollaboratorError.msg

\* C8: a record execute returns is COMPLETED, carries the job id of the one submit
\* call, results with at least one pose, a completion stamp and no error message.
C8_ReturnedRecordIsComplete ==
    \A e \in Execs :
        outcome[e].returned =>
            /\ execution[e].status = "COMPLETED"
            /\ obs[e].submit_calls = 1
            /\ ~IsNone(obs[e].submitted)
            /\ execution[e].job_id = obs[e].submitted
            /\ ~IsNone(execution[e].results)
            /\ Len(Val(execution[e].results).poses) >= 1
            /\ ~IsNone(execution[e].completed_at)
            /\ IsNone(execution[e].error_message)

C8_Witness ==
    \E e \in Execs :
        /\ outcome[e].returned
        /\ execution[e].status = "COMPLETED"
        /\ Len(Val(execution[e].results).poses) = 2
        /\ obs[e].sleeps > 0

\* C9: when an exception leaves execute, the record is FAILED, stamped, and its
\* error_message is the message of that exception.
C9_FailedRecordMatchesException ==
    \A e \in Execs :
        Raised(e) =>
            /\ execution[e].status = "FAILED"
            /\ ~IsNone(execution[e].completed_at)
            /\ execution[e].error_message = Some(Val(outcome[e].raised).msg)

C9_Witness ==
    \E e \in Execs :
        /\ RaisedType(e, "LigandPreparationError")
        /\ obs[e].prepare_calls = 1
        /\ execution[e].status = "FAILED"

\* C10 (as claimed): a COMPLETED record has results and no error_message, and a
\* FAILED record has an error_message and no results.
C10_ResultsAndErrorExclusive ==
    \A e \in Execs :
        /\ execution[e].status = "COMPLETED" =>
              ~IsNone(execution[e].results) /\ IsNone(execution[e].error_message)
        /\ execution[e].status = "FAILED" =>
              ~IsNone(execution[e].error_message) /\ IsNone(execution[e].results)

\* the positions a coroutine of execute may move to from each position
StepSuccessor(pc) ==
    CASE pc = "idle" -> {"_validate_parameters"}
      [] pc = "_validate_parameters" -> {"_prepare_ligand", "done"}
      [] pc = "_prepare_ligand" -> {"_prepare_receptor", "done"}
      [] pc = "_prepare_receptor" -> {"_submit_docking_job", "done"}
      [] pc = "_submit_docking_job" -> {"_monitor_execution", "done"}
      [] pc = "_monitor_execution" -> {"while"}
      [] pc = "while" -> {"sleep", "_retrieve_results", "done"}
      [] pc = "sleep" -> {"while"}
      [] pc = "_retrieve_results" -> {"return", "done"}
      [] pc = "return" -> {"done"}
      [] OTHER -> {}

\* the collaborator calls made so far respect the order of the steps
CallsInOrder(e) ==
    /\ obs[e].prepare_calls > 0 => IsNone(ValidationFailure(request[e], uuid4(e)))
    /\ obs[e].submit_calls > 0 =>
          /\ IsNone(ValidationFailure(request[e], uuid4(e)))
          /\ ~IsNone(obs[e].submit_ligand)
          /\ ~IsNone(obs[e].submit_receptor)
          /\ request[e].ligand.kind = "str" => ~IsNone(obs[e].prepare_result)
    /\ obs[e].status_calls > 0 =>
          /\ ~IsNone(obs[e].submitted)
          /\ Truthy(StrArg(Val(obs[e].submitted)))
    /\ obs[e].retrieve_calls > 0 => obs[e].completed_seen

\* C11: the steps of execute run in the fixed order validation, ligand
\* preparation, receptor preparation, submission, polling, retrieval; submit is
\* called only after validation passed and both structures were prepared,
\* get_job_status only after submit returned a job id, and retrieve_results only
\* after a poll returned COMPLETED.
C11_StepsRunInOrder ==
    /\ [](\A e \in Execs : CallsInOrder(e))
    /\ [][\A e \in Execs :
            frame'[e].pc # frame[e].pc => frame'[e].pc \in StepSuccessor(frame[e].pc)]_vars

C11_Witness ==
    \E e \in Execs :
        /\ Done(e)
        /\ outcome[e].returned
        /\ obs[e].prepare_calls = 1
        /\ obs[e].submit_calls = 1
        /\ obs[e].status_calls = 2
        /\ obs[e].retrieve_calls = 1

\* submit_docking_job was called and raised
SubmitRaised(e) == obs[e].submit_calls > 0 /\ IsNone(obs[e].submitted)

\* C12: submit_docking_job is called at most once in an execution; when it
\* raises, execute ends with DockingSubmissionError carrying the execution id,
\* the job_id of the record stays None, and no status query and no retrieval is
\* issued, whatever retry_attempts is.
C12_SubmitFailureIsFinal ==
    \A e \in Execs :
        /\ obs[e].submit_calls <= 1
        /\ SubmitRaised(e) =>
              /\ Done(e)
              /\ RaisedType(e, "DockingSubmissionError")
              /\ Val(outcome[e].raised).execution_id = Some(uuid4(e))
              /\ IsNone(execution[e].job_id)
              /\ obs[e].status_calls = 0
              /\ obs[e].retrieve_calls = 0

C12_Witness ==
    \E e \in Execs :
        /\ SubmitRaised(e)
        /\ request[e].retry_attempts = 3
        /\ execution[e].status = "FAILED"

\* C13: a RUNNING record has a job_id and a record with a job_id is not PENDING;
\* until submission returns the record is PENDING (or FAILED, when a step before
\* it failed), it becomes RUNNING in the step that records the job_id, and it
\* never goes back to PENDING.
C13_RunningIffJobId ==
    /\ [](\A e \in Execs :
            /\ execution[e].status = "RUNNING" => ~IsNone(execution[e].job_id)
            /\ ~IsNone(execution[e].job_id) => execution[e].status # "PENDING"
            /\ (execution[e].status # "ABSENT" /\ IsNone(obs[e].submitted)) =>
                  execution[e].status \in {"PENDING", "FAILED"})
    /\ [][\A e \in Execs :
            /\ (IsNone(execution[e].job_id) /\ ~IsNone(execution'[e].job_id)) =>
                  (execution[e].status = "PENDING" /\ execution'[e].status = "RUNNING")
            /\ execution'[e].status = "PENDING" =>
                  execution[e].status \in {"ABSENT", "PENDING"}]_vars

C13_Witness ==
    \E e \in Execs :
        /\ execution[e].status = "RUNNING"
        /\ execution[e].job_id = Some(ProviderJobId(e))
        /\ obs[e].status_calls = 1

\* C14: once the status of a record is COMPLETED or FAILED no step changes any
\* field of it, and the status is never CANCELED.
C14_TerminalRecordIsFrozen ==
    /\ [](\A e \in Execs : execution[e].status # "CANCELED")
    /\ [][\A e \in Execs :
            execution[e].status \in {"COMPLETED", "FAILED"} =>
                execution'[e] = execution[e]]_vars

C14_Witness ==
    \E e \in Execs :
        /\ Done(e)
        /\ execution[e].status = "COMPLETED"
        /\ ~IsNone(execution[e].results)
        /\ ~IsNone(execution[e].completed_at)

\* the time spent in the polling step so far, in seconds: the clock stands at
\* started_at until the first sleep, and only the sleeps of the loop advance it
PollingElapsed(e) ==
    IF IsNone(execution[e].started_at) THEN 0 ELSE now[e] - Val(execution[e].started_at)

\* timeout_minutes as a duration in seconds; a deadline already passed leaves
\* no time to wait
TimeoutSeconds(e) ==
    IF request[e].timeout_minutes > 0
    THEN SecondsPerMinute * request[e].timeout_minutes ELSE 0

\* C15: whatever the engine answers, the time between the start of the polling
\* step and its end never exceeds timeout_minutes, on the clock that each sleep
\* advances by poll_interval; a timeout that is zero or negative leaves no time
\* to wait at all.
C15_PollingBoundedByTimeout ==
    \A e \in Execs : PollingElapsed(e) <= TimeoutSeconds(e)

C15_Witness ==
    \E e \in Execs :
        /\ RaisedType(e, "DockingExecutionTimeoutError")
        /\ request[e].timeout_minutes = 1
        /\ obs[e].status_raised
        /\ PollingElapsed(e) = SecondsPerMinute

\* C16: a get_job_status call that raises does not end the polling: the
\* exception is caught and followed by a sleep, it is never the exception that
\* leaves execute, and when a later call returns COMPLETED the polling ends and
\* retrieve_results is called; an execution with a raising status query ends
\* only in that way or with the timeout error.
C16_StatusErrorsAreSwallowed ==
    \A e \in Execs :
        /\ frame[e].caught = Some(CollaboratorError) => Pc(e) = "sleep"
        /\ outcome[e].raised # Some(CollaboratorError)
        /\ (obs[e].status_raised /\ obs[e].completed_seen) =>
              /\ Pc(e) \in {"_retrieve_results", "return", "done"}
              /\ Pc(e) # "_retrieve_results" => obs[e].retrieve_calls = 1
        /\ (obs[e].status_raised /\ Done(e)) =>
              IF obs[e].completed_seen
              THEN obs[e].retrieve_calls = 1
              ELSE RaisedType(e, "DockingExecutionTimeoutError")

C16_Witness ==
    \E e \in Execs :
        /\ obs[e].status_raised
        /\ obs[e].completed_seen
        /\ obs[e].status_calls = 3
        /\ outcome[e].returned

\* the ligand is a structure, or a dict with data and format
LigandIsStructure(req) ==
    \/ req.ligand.kind = "MolecularStructure"
    \/ req.ligand.kind = "dict" /\ {"data", "format"} \subseteq req.ligand.keys

\* the coroutine has left the ligand preparation step
PastLigandPreparation(e) ==
    Pc(e) \notin {"idle", "_validate_parameters", "_prepare_ligand"}

\* C17: for a request that passes validation, a plain-string ligand makes
\* execute call prepare_ligand_from_drug_name exactly once, with exactly that
\* string, and the structure it returned is the ligand handed to
\* submit_docking_job; a ligand that is a structure, or a dict with data and
\* format, never causes a call of prepare_ligand_from_drug_name.
C17_DrugNameLookedUpOnce ==
    \A e \in Execs :
        (request[e].called /\ IsNone(ValidationFailure(request[e], uuid4(e)))) =>
            /\ request[e].ligand.kind = "str" =>
                  /\ obs[e].prepare_calls <= 1
                  /\ PastLigandPreparation(e) =>
                        /\ obs[e].prepare_calls = 1
                        /\ obs[e].prepare_arg = Some(request[e].ligand.value)
                  /\ obs[e].submit_calls > 0 =>
                        /\ ~IsNone(obs[e].prepare_result)
                        /\ obs[e].submit_ligand = obs[e].prepare_result
            /\ LigandIsStructure(request[e]) =>
                  /\ obs[e].prepare_calls = 0
                  /\ obs[e].submit_calls > 0 =>
                        obs[e].submit_ligand =
                            LigandWithoutLookup(request[e].ligand, uuid4(e)).value

C17_Witness ==
    \E e \in Execs :
        /\ outcome[e].returned
        /\ request[e].ligand = StrArg("aspirin")
        /\ obs[e].prepare_calls = 1
        /\ obs[e].submit_ligand = Some(PreparedLigand("aspirin"))

\* prepare_ligand_from_drug_name was called and raised
PrepareRaised(e) == obs[e].prepare_calls > 0 /\ IsNone(obs[e].prepare_result)

\* C18: when the ligand is a drug name and prepare_ligand_from_drug_name raises,
\* execute ends with LigandPreparationError carrying the execution id, not with
\* the adapter's exception, and submit_docking_job is not called.
C18_LookupFailureIsWrapped ==
    \A e \in Execs :
        PrepareRaised(e) =>
            /\ request[e].ligand.kind = "str"
            /\ Done(e)
            /\ RaisedType(e, "LigandPreparationError")
            /\ Val(outcome[e].raised).execution_id = Some(uuid4(e))
            /\ Val(outcome[e].raised).msg =
                  <<"Failed to prepare ligand: ">> \o CollaboratorError.msg
            /\ obs[e].submit_calls = 0

C18_Witness ==
    \E e \in Execs :
        /\ PrepareRaised(e)
        /\ obs[e].prepare_arg = Some("osimertinib")
        /\ execution[e].status = "FAILED"

\* the error classes of the use case
TypedErrors ==
    {"DockingParameterValidationError", "LigandPreparationError",
     "DockingSubmissionError", "DockingExecutionTimeoutError"}

\* C19: every exception that leaves execute is one of the typed errors of the
\* use case and carries the execution id; when the record has a job id at that
\* time, the exception carries that job id; no exception of a collaborator
\* leaves execute as it was raised.
C19_ErrorsAreTypedAndTagged ==
    \A e \in Execs :
        Raised(e) =>
            /\ Val(outcome[e].raised).type \in TypedErrors
            /\ Val(outcome[e].raised).execution_id = Some(uuid4(e))
            /\ ~IsNone(execution[e].job_id) =>
                  Val(outcome[e].raised).job_id = execution[e].job_id
            /\ outcome[e].raised # Some(CollaboratorError)

C19_Witness ==
    \E e \in Execs :
        /\ RaisedType(e, "DockingSubmissionError")
        /\ obs[e].retrieved = "raised"
        /\ Val(outcome[e].raised).job_id = Some(ProviderJobId(e))

\* the number of get_job_status calls follows from the sleeps taken: one query
\* before each sleep of a record with a job id, and one more when the last
\* query ended the loop
StatusCallsFollowSleeps(e) ==
    IF HasJobId(execution[e])
    THEN obs[e].status_calls =
            obs[e].sleeps + (IF obs[e].completed_seen \/ Pc(e) = "sleep" THEN 1 ELSE 0)
    ELSE obs[e].status_calls = 0

\* C20: retry_count is 0 in every state, on success and on every failure, and
\* the number of calls of each collaborator operation is fixed by the steps
\* taken and the answers received, whatever retry_attempts is: at most one
\* drug-name lookup, one submission and one retrieval, and one status query per
\* loop iteration.
C20_NoRetries ==
    \A e \in Execs :
        /\ execution[e].retry_count = 0
        /\ obs[e].prepare_calls <= 1
        /\ obs[e].submit_calls <= 1
        /\ obs[e].retrieve_calls <= 1
        /\ StatusCallsFollowSleeps(e)

C20_Witness ==
    \E e \in Execs :
        /\ Done(e)
        /\ request[e].retry_attempts = 3
        /\ RaisedType(e, "DockingSubmissionError")
        /\ obs[e].submit_calls = 1
        /\ IsNone(obs[e].submitted)
        /\ execution[e].retry_count = 0

----------------------------------------------------------------------------
(* Functions applied to drawn inputs: the DockingResults constructor and  *)
(* the parsing functions of NeuroSnapAdapter                              *)

\* a function fn is called with arg and has not returned yet
FunctionCall(fn, arg) == [pc |-> "called", fn |-> fn, arg |-> arg, result |-> None]

\* the best_pose arguments a caller may pass: none, or some pose
BestPoseArguments ==
    {None} \cup {Some(DockingPose(r, a)) : r \in 1..MaxResultPoses, a \in Affinities}

DockingResultsCalls ==
    {FunctionCall("DockingResults", [poses |-> p, best_pose |-> b]) :
        p \in PoseLists, b \in BestPoseArguments}

\* DockingResults(poses=..., best_pose=...) is constructed
apply_DockingResults ==
    /\ call.pc = "called"
    /\ call.fn = "DockingResults"
    /\ call' = [call EXCEPT
            !.pc = "returned",
            !.result = Some(DockingResults(call.arg.poses, call.arg.best_pose))]
    /\ UNCHANGED <<adapter, orchestratorVars>>

(* Text.  A text is a sequence of tokens: the SDF record delimiter, white  *)
(* space, other text, an SDF property ("> <TAG>" and the line after it),   *)
(* or a labelled value ("word: value").  The value of a property or label  *)
(* is a sequence of characters.  A float is counted in tenths: -7.3 is -73 *)

Delimiter == [kind |-> "$$$$", name |-> "", value |-> <<>>]
Space == [kind |-> "space", name |-> "", value |-> <<>>]
Text == [kind |-> "text", name |-> "", value |-> <<>>]
Property(tag, value) == [kind |-> "property", name |-> tag, value |-> value]
Label(word, value) == [kind |-> "label", name |-> word, value |-> value]

Digits == {"0", "1", "2", "3", "4", "5", "6", "7", "8", "9"}

DigitValue(c) ==
    CASE c = "0" -> 0 [] c = "1" -> 1 [] c = "2" -> 2 [] c = "3" -> 3
      [] c = "4" -> 4 [] c = "5" -> 5 [] c = "6" -> 6 [] c = "7" -> 7
      [] c = "8" -> 8 [] c = "9" -> 9

RECURSIVE DigitRun(_, _)
\* how many digits chars has from position i on: \d*
DigitRun(chars, i) ==
    IF i <= Len(chars) /\ chars[i] \in Digits THEN 1 + DigitRun(chars, i + 1) ELSE 0

\* the group ([+-]?\d+\.?\d*) matched at the start of chars: the length of the
\* match, 0 when the group does not match there
NumberMatch(chars) ==
    LET sign == IF Len(chars) > 0 /\ chars[1] \in {"+", "-"} THEN 1 ELSE 0
        whole == DigitRun(chars, sign + 1)
        point == IF sign + whole + 1 <= Len(chars) /\ chars[sign + whole + 1] = "."
                 THEN 1 ELSE 0
        frac == DigitRun(chars, sign + whole + point + 1)
    IN IF whole = 0 THEN 0 ELSE sign + whole + point + frac

RECURSIVE Whole(_, _, _)
\* the digits chars[i..j] read as a decimal number
Whole(chars, i, j) ==
    IF j < i THEN 0 ELSE 10 * Whole(chars, i, j - 1) + DigitValue(chars[j])

\* float(text) of a text the group matched, in tenths (one decimal place is kept)
Float(chars) ==
    LET sign == IF chars[1] \in {"+", "-"} THEN 1 ELSE 0
        whole == DigitRun(chars, sign + 1)
        point == IF sign + whole + 1 <= Len(chars) /\ chars[sign + whole + 1] = "."
                 THEN 1 ELSE 0
        frac == DigitRun(chars, sign + whole + point + 1)
        tenths == 10 * Whole(chars, sign + 1, sign + whole)
                  + (IF frac > 0 THEN DigitValue(chars[sign + whole + 2]) ELSE 0)
    IN IF chars[1] = "-" THEN 0 - tenths ELSE tenths

\* text.upper() of the tags and words of the texts drawn (re.IGNORECASE)
Upper(word) ==
    CASE word = "Affinity" -> "AFFINITY"
      [] word = "affinity" -> "AFFINITY"
      [] word = "Score" -> "SCORE"
      [] word = "score" -> "SCORE"
      [] word = "energy" -> "ENERGY"
      [] word = "Binding" -> "BINDING"
      [] word = "binding" -> "BINDING"
      [] word = "binding_affinity" -> "BINDING_AFFINITY"
      [] OTHER -> word

RECURSIVE Split(_)
\* content.split("$$$$"): the blocks between the delimiters
Split(content) ==
    IF \A i \in 1..Len(content) : content[i] # Delimiter
    THEN <<content>>
    ELSE LET d == CHOOSE i \in 1..Len(content) :
                    /\ content[i] = Delimiter
                    /\ \A j \in 1..(i - 1) : content[j] # Delimiter
         IN <<SubSeq(content, 1, d - 1)>> \o Split(SubSeq(content, d + 1, Len(content)))

RECURSIVE Strip(_)
\* block.strip(): white space removed at both ends
Strip(block) ==
    IF Len(block) = 0 THEN block
    ELSE IF block[1] = Space THEN Strip(Tail(block))
    ELSE IF block[Len(block)] = Space THEN Strip(SubSeq(block, 1, Len(block) - 1))
    ELSE block

\* a pose as the adapter builds it: DockingPose(rank=, affinity=, pose_data=)
ParsedPose(rank, affinity, pose_data) ==
    [rank |-> rank, affinity |-> affinity, confidence_score |-> None,
     pose_data |-> pose_data]

property_patterns == <<"AFFINITY", "BINDING_AFFINITY", "SCORE", "ENERGY">>

\* re.search(pattern, sdf_block, re.IGNORECASE) for the pattern of one tag: the
\* first property of that tag whose value starts with a number, or None
SearchProperty(tag, sdf_block) ==
    LET hits == {i \in 1..Len(sdf_block) :
                    /\ sdf_block[i].kind = "property"
                    /\ Upper(sdf_block[i].name) = tag
                    /\ NumberMatch(sdf_block[i].value) > 0}
    IN IF hits = {} THEN None
       ELSE LET i == CHOOSE h \in hits : \A g \in hits : h <= g
            IN Some(SubSeq(sdf_block[i].value, 1, NumberMatch(sdf_block[i].value)))

RECURSIVE ExtractFrom(_, _)
\* the loop of _extract_affinity_from_sdf from pattern p on
ExtractFrom(sdf_block, p) ==
    IF p > Len(property_patterns) THEN None
    ELSE LET match == SearchProperty(property_patterns[p], sdf_block)
         IN IF IsNone(match) THEN ExtractFrom(sdf_block, p + 1)
            ELSE Some(Float(Val(match)))


\* _extract_affinity_from_sdf trying the first pattern only
_extract_affinity_from_sdf_FirstPatternOnly(sdf_block) ==
    LET match == SearchProperty(property_patterns[1], sdf_block)
    IN IF IsNone(match) THEN None ELSE Some(Float(Val(match)))

_extract_affinity_from_sdf(sdf_block) == ExtractFrom(sdf_block, 1)

RECURSIVE ParseMolecules(_, _, _, _)
\* the loop of _parse_sdf_poses from molecule m on, with poses and rank so far
ParseMolecules(molecules, m, poses, rank) ==
    IF m > Len(molecules) THEN poses
    ELSE IF Len(Strip(molecules[m])) = 0
    THEN ParseMolecules(molecules, m + 1, poses, rank)
    ELSE LET affinity == _extract_affinity_from_sdf(molecules[m])
         IN IF IsNone(affinity)
            THEN ParseMolecules(molecules, m + 1, poses, rank)
            ELSE ParseMolecules(molecules, m + 1,
                    Append(poses, ParsedPose(rank, Val(affinity), Strip(molecules[m]))),
                    rank + 1)

_parse_sdf_poses(sdf_content) == ParseMolecules(Split(sdf_content), 1, <<>>, 1)

affinity_patterns == <<"AFFINITY", "BINDING", "SCORE">>

\* the words of the texts drawn that end with the keyword of a pattern
EndsWithKeyword(word, keyword) ==
    \/ Upper(word) = keyword
    \/ Upper(word) = "BINDING_AFFINITY" /\ keyword = "AFFINITY"

RECURSIVE FindAll(_, _, _)
\* re.findall(pattern, content, re.IGNORECASE) from token i on: the numbers that
\* follow the keyword, in the order of the text
FindAll(keyword, content, i) ==
    IF i > Len(content) THEN <<>>
    ELSE IF /\ content[i].kind = "label"
            /\ EndsWithKeyword(content[i].name, keyword)
            /\ NumberMatch(content[i].value) > 0
    THEN <<SubSeq(content[i].value, 1, NumberMatch(content[i].value))>>
            \o FindAll(keyword, content, i + 1)
    ELSE FindAll(keyword, content, i + 1)

\* the poses of the matches of one pattern, ranked from rank on
RankedPoses(matches, rank, content) ==
    [m \in 1..Len(matches) |-> ParsedPose(rank + m - 1, Float(matches[m]), content)]

RECURSIVE GenericFrom(_, _)
\* the loop of _parse_generic_scores from pattern p on, no pose found so far
GenericFrom(content, p) ==
    IF p > Len(affinity_patterns) THEN <<>>
    ELSE LET poses == RankedPoses(FindAll(affinity_patterns[p], content, 1), 1, content)
         IN IF Len(poses) > 0 THEN poses ELSE GenericFrom(content, p + 1)

_parse_generic_scores(content) == GenericFrom(content, 1)

(* Files.  A file name is a stem and an extension; a file content is its  *)
(* bytes seen three ways: whether they decode as UTF-8, the text they      *)
(* decode to, and the object json.loads makes of them (None: not JSON).    *)

FileName(stem, ext) == [stem |-> stem, ext |-> ext]

\* file_name.lower() of the stems and extensions drawn
Lower(part) ==
    CASE part = "Poses" -> "poses"
      [] part = ".SDF" -> ".sdf"
      [] OTHER -> part

\* pattern in file_name.lower()
Contains(file_name, pattern) ==
    pattern \in {Lower(file_name.stem), Lower(file_name.ext)}

\* file_name.endswith(ext)
EndsWith(file_name, ext) == file_name.ext = ext

file_patterns == <<".sdf", "poses", "results", ".json", "docked", "out">>

\* _identify_result_files: the files whose name has one of the patterns, or all
\* files when none has
_identify_result_files(file_list) ==
    LET matching(file_name) ==
            \E p \in 1..Len(file_patterns) : Contains(file_name, file_patterns[p])
        result_files == SelectSeq(file_list, matching)
    IN IF Len(result_files) > 0 THEN result_files ELSE file_list

\* _parse_docking_poses: the SDF parser for a name ending in .sdf, the generic
\* parser for any other name; an exception (bytes that do not decode) gives []
_parse_docking_poses(file_content, file_name) ==
    IF ~file_content.utf8 THEN <<>>
    ELSE IF EndsWith(file_name, ".sdf") THEN _parse_sdf_poses(file_content.text)
    ELSE _parse_generic_scores(file_content.text)

(* JSON.  A JSON object is a function from its keys to values; a value is  *)
(* null, a number (in tenths) or a string of characters.                   *)

JsonNull == [kind |-> "null", n |-> 0, chars |-> <<>>]
JsonNumber(n) == [kind |-> "number", n |-> n, chars |-> <<>>]
JsonString(chars) == [kind |-> "string", n |-> 0, chars |-> chars]

EmptyDict == [k \in {} |-> JsonNull]

\* metadata.get(key): the value, or None
Get(metadata, key) == IF key \in DOMAIN metadata THEN metadata[key] ELSE JsonNull

\* metadata.update(file_data)
Update(metadata, file_data) ==
    [k \in DOMAIN metadata \cup DOMAIN file_data |->
        IF k \in DOMAIN file_data THEN file_data[k] ELSE metadata[k]]

\* bool(value): None, 0 and "" are falsy
TruthyValue(value) ==
    CASE value.kind = "null" -> FALSE
      [] value.kind = "number" -> value.n # 0
      [] OTHER -> Len(value.chars) > 0

\* a or b
Or(a, b) == IF TruthyValue(a) THEN a ELSE b

\* float(value): the number, or None for the ValueError of a string that is
\* not a number
FloatOf(value) ==
    IF value.kind = "number" THEN Some(value.n)
    ELSE IF NumberMatch(value.chars) > 0 /\ NumberMatch(value.chars) = Len(value.chars)
    THEN Some(Float(value.chars))
    ELSE None

\* metadata.get("affinity") or metadata.get("binding_affinity")
AffinityValue(metadata) == Or(Get(metadata, "affinity"), Get(metadata, "binding_affinity"))

\* retrieve_results, "if not poses:": one pose made of the metadata when no
\* file gave a pose
PosesFromMetadata(poses, metadata) ==
    IF Len(poses) > 0 THEN poses
    ELSE LET affinity_value == AffinityValue(metadata)
         IN IF affinity_value.kind # "null" /\ ~IsNone(FloatOf(affinity_value))
            THEN <<[rank |-> 1, affinity |-> Val(FloatOf(affinity_value)),
                    confidence_score |-> Get(metadata, "confidence_score"),
                    pose_data |-> metadata]>>
            ELSE <<>>

\* retrieve_results, the body of "for file_name in result_files:" for one
\* downloaded file: poses of a pose file are appended, the object of a JSON
\* file is merged into the metadata, any other file is left unread
FileStep(acc, file) ==
    IF EndsWith(file.name, ".sdf") \/ Contains(file.name, "poses")
    THEN [acc EXCEPT !.poses = @ \o _parse_docking_poses(file.content, file.name)]
    ELSE IF EndsWith(file.name, ".json") \/ Contains(file.name, "results")
    THEN IF file.content.utf8 /\ ~IsNone(file.content.json)
         THEN [acc EXCEPT !.metadata = Update(@, Val(file.content.json))]
         ELSE acc
    ELSE acc

\* client.download_job_file: the file the provider keeps under file_name
download_job_file(files, file_name) ==
    files[CHOOSE i \in 1..Len(files) :
            /\ files[i].name = file_name
            /\ \A j \in 1..(i - 1) : files[j].name # file_name]

RECURSIVE ParseFiles(_, _, _)
\* the for loop over result_files from file f on
ParseFiles(result_files, f, acc) ==
    IF f > Len(result_files) THEN acc
    ELSE ParseFiles(result_files, f + 1, FileStep(acc, result_files[f]))

\* retrieve_results from "result_files = ..." to "return results", the output
\* files of the job being output_files
ResultsOfFiles(files) ==
    LET output_files == [i \in 1..Len(files) |-> files[i].name]
        names == _identify_result_files(output_files)
        result_files == [i \in 1..Len(names) |-> download_job_file(files, names[i])]
        acc == ParseFiles(result_files, 1, [poses |-> <<>>, metadata |-> EmptyDict])
    IN DockingResults(PosesFromMetadata(acc.poses, acc.metadata), None)

(* The inputs drawn *)

\* the sequences over S of length at most n
SeqUpTo(S, n) == UNION {[1..k -> S] : k \in 0..n}

\* SDF texts: a tagged record, a tag in another case, a tag of second rank, a
\* recognised tag without a number, a tag that is not recognised
SdfTokens ==
    {Delimiter, Space, Text,
     Property("AFFINITY", <<"-", "7", ".", "3">>),
     Property("Score", <<"-", "8", ".", "5">>),
     Property("BINDING_AFFINITY", <<"0">>),
     Property("energy", <<"a", "b", "c">>),
     Property("NAME", <<"1", "2">>)}

\* texts of labelled values
LabelTokens ==
    {Text,
     Label("affinity", <<"-", "7", ".", "3">>),
     Label("Binding", <<"-", "8", ".", "5">>),
     Label("score", <<"0">>),
     Label("binding_affinity", <<"-", "6">>),
     Label("score", <<"a", "b", "c">>)}

\* bytes that are text
TextContent(text) == [utf8 |-> TRUE, text |-> text, json |-> None]

\* bytes that are a JSON object
JsonContent(object) == [utf8 |-> TRUE, text |-> <<Text>>, json |-> Some(object)]

\* the values a JSON file has under affinity and binding_affinity
JsonValues == {JsonNumber(0), JsonNumber(-73), JsonString(<<"a", "b", "c">>)}

JsonObjects ==
    UNION {[keys -> JsonValues] : keys \in SUBSET {"affinity", "binding_affinity"}}

\* the output files of a job
FileChoices ==
    {[name |-> FileName("ligand", ".sdf"),
      content |-> TextContent(<<Property("AFFINITY", <<"-", "7", ".", "3">>), Delimiter, Space>>)],
     [name |-> FileName("ligand", ".sdf"),
      content |-> [utf8 |-> FALSE, text |-> <<>>, json |-> None]],
     [name |-> FileName("ligand", ".SDF"),
      content |-> TextContent(<<Property("AFFINITY", <<"-", "7", ".", "3">>), Delimiter, Space>>)],
     [name |-> FileName("Poses", ".txt"),
      content |-> TextContent(<<Label("Binding", <<"-", "8", ".", "5">>)>>)],
     [name |-> FileName("docked", ".pdbqt"),
      content |-> TextContent(<<Label("affinity", <<"-", "8", ".", "5">>)>>)],
     [name |-> FileName("out", ".log"),
      content |-> TextContent(<<Label("score", <<"-", "6">>)>>)],
     [name |-> FileName("readme", ".md"),
      content |-> TextContent(<<Text>>)],
     [name |-> FileName("results", ".txt"),
      content |-> TextContent(<<Label("affinity", <<"-", "7", ".", "3">>)>>)]}
    \cup {[name |-> FileName("summary", ".json"), content |-> JsonContent(o)] :
            o \in JsonObjects}

SdfCalls ==
    {FunctionCall("_parse_sdf_poses", c) : c \in SeqUpTo(SdfTokens, MaxSdfTokens)}

GenericCalls ==
    {FunctionCall("_parse_generic_scores", c) : c \in SeqUpTo(LabelTokens, MaxLabelTokens)}

FilesCalls ==
    {FunctionCall("retrieve_results", f) : f \in SeqUpTo(FileChoices, MaxFiles)}

\* the function applied and its input
CallDrawn(fn) ==
    CASE fn = "DockingResults" -> call \in DockingResultsCalls
      [] fn = "_parse_sdf_poses" -> call \in SdfCalls
      [] fn = "_parse_generic_scores" -> call \in GenericCalls
      [] fn = "retrieve_results" -> call \in FilesCalls

InitFunctions ==
    /\ request = [e \in Execs |-> NoCall]
    /\ execution = [e \in Execs |-> NoExecution]
    /\ frame = [e \in Execs |-> InitFrame]
    /\ now = [e \in Execs |-> 0]
    /\ outcome = [e \in Execs |-> InitOutcome]
    /\ obs = [e \in Execs |-> InitObs]
    /\ adapter = NoAdapterCall
    /\ \E fn \in {"DockingResults", "_parse_sdf_poses", "_parse_generic_scores",
                   "retrieve_results"} : CallDrawn(fn)

\* _parse_sdf_poses(sdf_content) returns
apply_parse_sdf_poses ==
    /\ call.pc = "called"
    /\ call.fn = "_parse_sdf_poses"
    /\ call' = [call EXCEPT !.pc = "returned",
                            !.result = Some(_parse_sdf_poses(call.arg))]
    /\ UNCHANGED <<adapter, orchestratorVars>>

\* _parse_generic_scores(content) returns
apply_parse_generic_scores ==
    /\ call.pc = "called"
    /\ call.fn = "_parse_generic_scores"
    /\ call' = [call EXCEPT !.pc = "returned",
                            !.result = Some(_parse_generic_scores(call.arg))]
    /\ UNCHANGED <<adapter, orchestratorVars>>

\* retrieve_results from "result_files = ..." on, given the output files
apply_results_of_files ==
    /\ call.pc = "called"
    /\ call.fn = "retrieve_results"
    /\ call' = [call EXCEPT !.pc = "returned",
                            !.result = Some(ResultsOfFiles(call.arg))]
    /\ UNCHANGED <<adapter, orchestratorVars>>

NextFunctions ==
    \/ apply_DockingResults
    \/ apply_parse_sdf_poses
    \/ apply_parse_generic_scores
    \/ apply_results_of_files

SpecFunctions == InitFunctions /\ [][NextFunctions]_vars

----------------------------------------------------------------------------
(* Properties of the constructor and the parsing functions *)


----------------------------------------------------------------------------
(* NeuroSnapAdapter.retrieve_results as a state machine: one call, for a   *)
(* job whose status and output files the provider holds                    *)

\* an exception of the adapter
AdapterError(type, msg) == [type |-> type, msg |-> msg]

\* retrieve_results(job_id) is called on a fresh adapter
AdapterCalls ==
    {[pc |-> "called", job_id |-> "job_1", status |-> s, files |-> f,
      client |-> FALSE, status_queries |-> 0, listings |-> 0, downloads |-> 0,
      returned |-> None, raised |-> None] :
        s \in JobStatus, f \in SeqUpTo(FileChoices, MaxFiles)}

InitAdapter ==
    /\ request = [e \in Execs |-> NoCall]
    /\ execution = [e \in Execs |-> NoExecution]
    /\ frame = [e \in Execs |-> InitFrame]
    /\ now = [e \in Execs |-> 0]
    /\ outcome = [e \in Execs |-> InitOutcome]
    /\ obs = [e \in Execs |-> InitObs]
    /\ adapter \in AdapterCalls
    /\ call = NoFunctionCall

\* retrieve_results enters its try block: client = await self._get_client().
\* The status check and the listing of the output files that follow are
\* inside a comment line of the source and are not executed.
adapter_get_client ==
    /\ adapter.pc = "called"
    /\ adapter' = [adapter EXCEPT !.client = TRUE, !.pc = "_identify_result_files"]
    /\ UNCHANGED <<call, orchestratorVars>>

\* evaluating the name output_files, which no statement binds
NameError_output_files ==
    AdapterError("NameError", <<"name 'output_files' is not defined">>)

\* the clause "except Exception" of retrieve_results
DockingResultsError(exc) ==
    AdapterError("DockingResultsError", <<"Result retrieval failed: ">> \o exc.msg)

\* result_files = self._identify_result_files(output_files): the argument is
\* evaluated first and raises NameError, which is not a JobNotCompleteError and
\* is wrapped by the clause "except Exception"
adapter_identify_result_files ==
    /\ adapter.pc = "_identify_result_files"
    /\ adapter' = [adapter EXCEPT
            !.raised = Some(DockingResultsError(NameError_output_files)),
            !.pc = "done"]
    /\ UNCHANGED <<call, orchestratorVars>>

NextAdapter ==
    \/ adapter_get_client
    \/ adapter_identify_result_files

SpecAdapter == InitAdapter /\ [][NextAdapter]_vars


\* how an execution that has ended must have ended, given the answers its own
\* collaborator calls received
OutcomeFromOwnAnswers(e) ==
    /\ IF Raised(e)
       THEN /\ execution[e].status = "FAILED"
            /\ execution[e].error_message = Some(Val(outcome[e].raised).msg)
            /\ Val(outcome[e].raised).execution_id = Some(uuid4(e))
            /\ Val(outcome[e].raised).job_id \in {None, obs[e].submitted}
       ELSE /\ outcome[e].returned
            /\ execution[e].status = "COMPLETED"
            /\ IsNone(execution[e].error_message)
    /\ CASE PrepareRaised(e) -> RaisedType(e, "LigandPreparationError")
         [] SubmitRaised(e) -> RaisedType(e, "DockingSubmissionError")
         [] obs[e].retrieved = "poses" -> outcome[e].returned
         [] obs[e].retrieved \in {"raised", "none", "empty"} ->
                RaisedType(e, "DockingSubmissionError")
         [] OTHER -> RaisedType(e, "DockingExecutionTimeoutError")

\* C24: two executions started concurrently on one use case are independent:
\* the status queries and the retrieval of each use only the job id its own
\* submission returned, a step of one execution leaves the record, the clock,
\* the outcome and the call history of the other as they were, and the way an
\* execution ends follows from the answers its own calls received.
C24_ExecutionsAreIndependent ==
    /\ [](\A e \in Execs :
            /\ obs[e].queried \subseteq {ProviderJobId(e)}
            /\ obs[e].queried # {} => obs[e].submitted = Some(ProviderJobId(e))
            /\ execution[e].job_id \in {None, obs[e].submitted}
            /\ execution[e].execution_id \in {None, Some(uuid4(e))}
            /\ Done(e) => OutcomeFromOwnAnswers(e))
    /\ [][\A e \in Execs :
            frame'[e] = frame[e] =>
                /\ execution'[e] = execution[e]
                /\ outcome'[e] = outcome[e]
                /\ obs'[e] = obs[e]
                /\ now'[e] = now[e]]_vars

C24_Witness ==
    /\ Done(1) /\ Done(2)
    /\ outcome[1].returned
    /\ RaisedType(2, "DockingExecutionTimeoutError")
    /\ obs[1].queried = {ProviderJobId(1)}
    /\ obs[2].queried = {ProviderJobId(2)}
    /\ obs[2].status_calls > obs[1].status_calls


\* C25: when every collaborator call returns or raises and every sleep ends,
\* each call of execute ends, whatever the engine answers to the status
\* queries, and it ends by returning a COMPLETED record or by raising.
C25_ExecuteTerminates ==
    \A e \in Execs :
        /\ request[e].called ~> Done(e)
        /\ [](Done(e) =>
                IF Raised(e) THEN execution[e].status = "FAILED"
                ELSE outcome[e].returned /\ execution[e].status = "COMPLETED")

C25_Witness ==
    \E e \in Execs :
        /\ RaisedType(e, "DockingExecutionTimeoutError")
        /\ obs[e].status_raised
        /\ obs[e].failed_seen
        /\ obs[e].sleeps = 6
        /\ obs[e].status_calls = 6


\* C29: between two status queries of an execution there is exactly one sleep
\* of poll_interval: when a query is issued every earlier query has been
\* followed by one sleep, a sleep follows a query that no sleep has followed
\* yet, and it advances the clock by poll_interval.
C29_OneSleepBetweenQueries ==
    [][\A e \in Execs :
          /\ obs'[e].status_calls > obs[e].status_calls =>
                /\ obs'[e].status_calls = obs[e].status_calls + 1
                /\ obs[e].sleeps = obs[e].status_calls
          /\ (obs'[e].sleeps > obs[e].sleeps /\ HasJobId(execution[e])) =>
                /\ obs'[e].sleeps = obs[e].sleeps + 1
                /\ obs[e].sleeps = obs[e].status_calls - 1
          /\ obs'[e].sleeps > obs[e].sleeps => now'[e] = now[e] + poll_interval]_vars

C29_Witness ==
    \E e \in Execs :
        /\ obs[e].status_calls = 3
        /\ obs[e].sleeps = 2
        /\ obs[e].status_raised
        /\ now[e] = 2 * poll_interval

\* C30: timeout_minutes is not validated; an execution whose timeout_minutes is
\* zero or negative passes validation like one with a positive timeout, submits
\* the job once its structures are prepared, issues no status query, no sleep
\* and no retrieval, and, once the job is submitted, ends with
\* DockingExecutionTimeoutError.
C30_NonPositiveTimeoutStillSubmits ==
    \A e \in Execs :
        (request[e].called /\ request[e].timeout_minutes <= 0) =>
            /\ ValidationFailure(request[e], uuid4(e)) =
                  ValidationFailure([request[e] EXCEPT !.timeout_minutes = 30], uuid4(e))
            /\ obs[e].status_calls = 0
            /\ obs[e].sleeps = 0
            /\ obs[e].retrieve_calls = 0
            /\ (Done(e) /\ ~IsNone(frame[e].receptor_structure)) => obs[e].submit_calls = 1
            /\ (Done(e) /\ ~IsNone(obs[e].submitted)) =>
                  /\ RaisedType(e, "DockingExecutionTimeoutError")
                  /\ Val(outcome[e].raised).job_id = obs[e].submitted

C30_Witness ==
    \E e \in Execs :
        /\ request[e].timeout_minutes = 0
        /\ obs[e].submitted = Some(ProviderJobId(e))
        /\ RaisedType(e, "DockingExecutionTimeoutError")
        /\ obs[e].status_calls = 0

\* the function fn has returned
Returned(fn) == call.pc = "returned" /\ call.fn = fn

\* C21 (as claimed): DockingResults constructed with a non-empty pose list has,
\* whatever best_pose argument it was given, a best_pose whose affinity is the
\* least affinity of its poses.
C21_BestPoseIsMinimum ==
    (Returned("DockingResults") /\ Len(call.arg.poses) > 0) =>
        LET results == Val(call.result)
        IN /\ ~IsNone(results.best_pose)
           /\ \A i \in 1..Len(results.poses) :
                 Val(results.best_pose).affinity <= results.poses[i].affinity

\* the SDF file of one record tagged AFFINITY -7.3
TaggedSdfFile ==
    [name |-> FileName("ligand", ".sdf"),
     content |-> TextContent(<<Property("AFFINITY", <<"-", "7", ".", "3">>), Delimiter, Space>>)]

\* C22 (as claimed): for a COMPLETED job whose output is the SDF file of one
\* record tagged AFFINITY -7.3, retrieve_results lists the files, downloads
\* the file and returns results with one pose of rank 1 and affinity -7.3 that
\* is the best_pose; it does not raise.
C22_SdfResultsRetrieved ==
    (/\ adapter.pc = "done"
     /\ adapter.status = "COMPLETED"
     /\ adapter.files = <<TaggedSdfFile>>)
    => /\ IsNone(adapter.raised)
       /\ adapter.listings = 1
       /\ adapter.downloads = 1
       /\ ~IsNone(adapter.returned)
       /\ Len(Val(adapter.returned).poses) = 1
       /\ Val(adapter.returned).poses[1].rank = 1
       /\ Val(adapter.returned).poses[1].affinity = -73
       /\ Val(adapter.returned).best_pose = Some(Val(adapter.returned).poses[1])

\* C23 (as claimed): retrieve_results for a job that is not COMPLETED raises
\* JobNotCompleteError and downloads nothing.
C23_NotCompleteIsRefused ==
    (adapter.pc = "done" /\ adapter.status \in {"PENDING", "RUNNING", "FAILED"}) =>
        /\ ~IsNone(adapter.raised)
        /\ Val(adapter.raised).type = "JobNotCompleteError"
        /\ adapter.downloads = 0

\* the k-th position of the delimiter in content
DelimiterAt(content, k) ==
    LET D == {i \in 1..Len(content) : content[i] = Delimiter}
    IN CHOOSE d \in D : Cardinality({x \in D : x < d}) = k - 1

\* the records of an SDF text: what lies before, between and after its
\* delimiters
Records(content) ==
    LET n == Cardinality({i \in 1..Len(content) : content[i] = Delimiter})
    IN [k \in 1..(n + 1) |->
            SubSeq(content,
                   IF k = 1 THEN 1 ELSE DelimiterAt(content, k - 1) + 1,
                   IF k = n + 1 THEN Len(content) ELSE DelimiterAt(content, k) - 1)]

RecognisedTags == {"AFFINITY", "BINDING_AFFINITY", "SCORE", "ENERGY"}

\* a record that is not blank and carries a recognised tag with a number
Qualifies(record) ==
    /\ \E i \in 1..Len(record) : record[i] # Space
    /\ \E i \in 1..Len(record) :
          /\ record[i].kind = "property"
          /\ Upper(record[i].name) \in RecognisedTags
          /\ NumberMatch(record[i].value) > 0

\* C26: _parse_sdf_poses returns one pose for each record of the text that is
\* not blank and carries a recognised tag (in any case) with a number, in the
\* order of the records and ranked 1..n without gaps; a record without such a
\* tag gives no pose and uses no rank.
C26_SdfPosesRankedByRecord ==
    Returned("_parse_sdf_poses") =>
        LET tagged == SelectSeq(Records(call.arg), Qualifies)
            poses == Val(call.result)
        IN /\ Len(poses) = Len(tagged)
           /\ \A i \in 1..Len(poses) :
                 /\ poses[i].rank = i
                 /\ poses[i].pose_data = Strip(tagged[i])

C26_Witness ==
    /\ Returned("_parse_sdf_poses")
    /\ call.arg = <<Property("NAME", <<"1", "2">>), Delimiter,
                    Property("Score", <<"-", "8", ".", "5">>), Delimiter>>
    /\ Len(Val(call.result)) = 1
    /\ Val(call.result)[1].rank = 1
    /\ Val(call.result)[1].affinity = -85

\* the value the JSON files give to key once merged: that of the last file
\* that has the key
MergedValue(files, key) ==
    LET having == {i \in 1..Len(files) : key \in DOMAIN Val(files[i].content.json)}
    IN IF having = {} THEN JsonNull
       ELSE Val(files[CHOOSE i \in having : \A j \in having : j <= i].content.json)[key]

\* the output files are JSON files only: no pose comes from a pose file
OnlyJsonFiles(files) ==
    /\ Len(files) > 0
    /\ \A i \in 1..Len(files) : files[i].name.ext = ".json"

OtherTextFile(file) ==
    /\ file.content.utf8
    /\ Lower(file.name.ext) \notin {".sdf", ".json"}
    /\ ~Contains(file.name, "results")

====
